---- MODULE Spec2Model ----
(***************************************************************************)
(* State-machine model of the cryptotrading REST facade (src/src/app.py).  *)
(* The store (tables User and Orders), the hypermedia builder MasonBuilder *)
(* and the venue are collaborators of app.py: the store and the builder    *)
(* are modelled from the written specification, the venue's replies are    *)
(* nondeterministic inputs of the handlers that call it.                   *)
(***************************************************************************)
EXTENDS Integers, Sequences, FiniteSets, TLC

VARIABLES
    users,      \* rows of table User
    orders,     \* rows of table Orders
    last,       \* the most recent request, its response, the venue calls it made
    inflight,   \* per worker: a POST /accounts/ that has built its User, not yet committed
    answered,   \* per worker: the answer of the worker's most recent POST /accounts/
    built       \* the most recent error response built, with what it was built from

vars == <<users, orders, last, inflight, answered, built>>

-----------------------------------------------------------------------------
(* Bounds and input domains *)

MaxId == 2
NumWorkers == 2

Workers == 1..NumWorkers
Names == {"n1", "n2"}
Keys == {"k1", "k2"}
Secrets == {"s1", "s2"}
OrderIds == {"o1", "o2"}
Symbols == {"XBTUSD"}

EmptyFcn == [k \in {} |-> k]

-----------------------------------------------------------------------------
(* JSON values, as the request parser hands them to the handlers *)

JNull == [t |-> "null"]
JStr(s) == [t |-> "string", v |-> s]
JInt(n) == [t |-> "integer", v |-> n]
JObj(f) == [t |-> "object", v |-> f]

\* Python truthiness of a parsed JSON value: None, {}, "" and 0 are falsy.
Truthy(j) ==
    CASE j.t = "null" -> FALSE
      [] j.t = "object" -> DOMAIN j.v # {}
      [] j.t = "string" -> j.v # ""
      [] j.t = "integer" -> j.v # 0
      [] OTHER -> TRUE

-----------------------------------------------------------------------------
(* Schemas *)

account_schema ==
    [type |-> "object",
     required |-> <<"accountname", "api_public", "api_secret">>,
     properties |->
        [accountname |-> [description |-> "name of the account", type |-> "string"],
         api_public |-> [description |-> "public part of the api-key", type |-> "string"],
         api_secret |-> [description |-> "secret part of the api-key", type |-> "string"]]]

order_schema ==
    [type |-> "object",
     required |-> <<"symbol", "size", "price", "side">>,
     properties |->
        [symbol |-> [description |-> "Order trading pair symbol", type |-> "string"],
         size |-> [description |-> "The size of the order in contract", type |-> "integer"],
         price |-> [description |-> "price of the order", type |-> "number"],
         side |-> [description |-> "side of the order", type |-> "string"]]]

position_schema ==
    [type |-> "object",
     required |-> <<"leverage">>,
     properties |->
        [leverage |-> [description |-> "Leverage of the position", type |-> "number"]]]

\* JSON-schema type test: "number" accepts integers too.
IsOfType(j, ty) ==
    \/ j.t = ty
    \/ ty = "number" /\ j.t = "integer"

\* validate(instance, schema): the ValidationError messages; {} when valid.
ValidationErrors(j, schema) ==
    IF ~IsOfType(j, schema.type)
    THEN {"instance is not of type '" \o schema.type \o "'"}
    ELSE {"'" \o schema.required[i] \o "' is a required property" :
              i \in {n \in DOMAIN schema.required : schema.required[n] \notin DOMAIN j.v}}
         \cup
         {"'" \o f \o "' is not of type '" \o schema.properties[f].type \o "'" :
              f \in {g \in DOMAIN j.v \cap DOMAIN schema.properties :
                        ~IsOfType(j.v[g], schema.properties[g].type)}}

\* str(e) of the ValidationError that validate raises (one of the messages).
ValidationMessage(j, schema) ==
    CHOOSE m \in ValidationErrors(j, schema) : TRUE

-----------------------------------------------------------------------------
(* Hypermedia documents (MasonBuilder): a mapping from keys to values *)

\* MasonBuilder(**fields): a document holding exactly the given fields.
MasonBuilder(fields) == fields

\* add_control(relation, href, **kwargs): insert or overwrite the control under
\* relation in "@controls"; the method defaults to GET.
add_control(doc, relation, href, kwargs) ==
    LET old == IF "@controls" \in DOMAIN doc THEN doc["@controls"] ELSE EmptyFcn
        ctrl == ("href" :> href) @@ kwargs @@ ("method" :> "GET")
    IN  ("@controls" :> ((relation :> ctrl) @@ old)) @@ doc

\* add_error(title, message): "@messages" holds the message when there is one.
add_error(doc, title, message) ==
    ("@error" :> (("@message" :> title) @@
                  ("@messages" :> IF Truthy(message) THEN <<message.v>> ELSE <<>>))) @@ doc

Relations(doc) ==
    IF "@controls" \in DOMAIN doc THEN DOMAIN doc["@controls"] ELSE {}

-----------------------------------------------------------------------------
(* Routes: api.add_resource and url building / matching *)

St(name) == [k |-> "s", n |-> name]
Arg(name) == [k |-> "v", n |-> name]

Routes ==
    [Entry |-> <<>>,
     Accounts |-> <<St("accounts")>>,
     Account |-> <<St("accounts"), Arg("apikey")>>,
     OrdersResource |-> <<St("accounts"), Arg("apikey"), St("orders")>>,
     OrderResource |-> <<St("accounts"), Arg("apikey"), St("orders"), Arg("orderid")>>,
     PriceAction |-> <<St("priceaction")>>,
     Positions |-> <<St("accounts"), Arg("apikey"), St("positions")>>,
     Position |-> <<St("accounts"), Arg("apikey"), St("positions"), Arg("symbol")>>,
     OrderBook |-> <<St("orderbook")>>,
     OrderHistory |-> <<St("accounts"), Arg("apikey"), St("orders"), St("history")>>,
     TransactionHistory |-> <<St("accounts"), Arg("apikey"), St("history")>>,
     AccountBalance |-> <<St("accounts"), Arg("apikey"), St("balance")>>,
     BucketedPriceAction |-> <<St("priceaction"), St("bucketed")>>]

Resources == DOMAIN Routes

\* api.url_for(resource, **args): the path of the resource, segment by segment.
url_for(resource, args) ==
    LET rule == Routes[resource]
    IN  [i \in 1..Len(rule) |-> IF rule[i].k = "s" THEN rule[i].n ELSE args[rule[i].n]]

RouteArgs(resource) ==
    {Routes[resource][i].n : i \in {j \in 1..Len(Routes[resource]) : Routes[resource][j].k = "v"}}

\* A path matches a rule when the static segments agree and every variable
\* segment is a non-empty string.
Matches(resource, path) ==
    LET rule == Routes[resource]
    IN  /\ Len(path) = Len(rule)
        /\ \A i \in 1..Len(rule) :
              IF rule[i].k = "s" THEN path[i] = rule[i].n ELSE path[i] # ""

StaticCount(resource) ==
    Cardinality({i \in 1..Len(Routes[resource]) : Routes[resource][i].k = "s"})

\* The rule a path is routed to: among the matching rules the one with the most
\* static segments (a static segment is tried before a variable one). <<>> when
\* no rule matches.
Resolve(path) ==
    LET cands == {r \in Resources : Matches(r, path)}
    IN  IF cands = {} THEN <<>>
        ELSE LET r == CHOOSE c \in cands : \A d \in cands : StaticCount(c) >= StaticCount(d)
                 rule == Routes[r]
             IN  <<[resource |-> r,
                    args |-> [a \in RouteArgs(r) |->
                                path[CHOOSE i \in 1..Len(rule) : rule[i].k = "v" /\ rule[i].n = a]]]>>

\* The methods each resource class defines, with the parameters (besides self)
\* of each method.
HandlerParams ==
    [Entry |-> [GET |-> {}],
     Accounts |-> [GET |-> {}, POST |-> {}],
     Account |-> [GET |-> {"apikey"}, DELETE |-> {"apikey"}],
     AccountBalance |-> [GET |-> {"apikey"}],
     TransactionHistory |-> [GET |-> {"apikey"}],
     OrdersResource |-> [GET |-> {"apikey"}, POST |-> {"apikey"}],
     OrderResource |-> [GET |-> {"apikey", "orderid"}, DELETE |-> {"apikey", "orderid"},
                        PUT |-> {"apikey", "orderid"}],
     OrderHistory |-> [GET |-> {}],
     OrderBook |-> [GET |-> {}],
     PriceAction |-> [GET |-> {}],
     BucketedPriceAction |-> [GET |-> {}],
     Positions |-> [GET |-> {"apikey"}],
     Position |-> [GET |-> {"apikey", "symbol"}, PATCH |-> {"apikey", "symbol"}]]

-----------------------------------------------------------------------------
(* Requests and responses *)

MASON == "application/vnd.mason+json"

NoHeaders == EmptyFcn
SecretHeader(s) == [api_secret |-> s]
HeaderSets == {NoHeaders} \cup {SecretHeader(s) : s \in Secrets}

Request(method, path, headers, json, args) ==
    [method |-> method, path |-> path, headers |-> headers, json |-> json, args |-> args]

EmptyBody == [kind |-> "empty"]
\* json.dumps(doc)
JsonBody(doc) == [kind |-> "json", doc |-> doc]
\* A mapping handed to Response as it is: the response iterates it, which yields
\* its keys.
IterBody(doc) == [kind |-> "keys", keys |-> DOMAIN doc]

Response(body, status, headers, mimetype) ==
    [status |-> status, headers |-> headers, body |-> body, mimetype |-> mimetype]

\* What the framework answers to a request whose handler raises, whose path no
\* rule matches, or whose method the resource does not define.
InternalServerError(req) == Response([kind |-> "html"], 500, EmptyFcn, "text/html")
NotFound(req) == Response([kind |-> "html"], 404, EmptyFcn, "text/html")
MethodNotAllowed(req) == Response([kind |-> "html"], 405, EmptyFcn, "text/html")

NoRequest == Request("", <<>>, NoHeaders, JNull, EmptyFcn)
NoResponse == Response(EmptyBody, 0, EmptyFcn, "")

\* The result of serving a request: the response, the store afterwards, and the
\* calls made to the venue.
Outcome(resp, U, O, calls) == [resp |-> resp, users |-> U, orders |-> O, venue |-> calls]

\* create_error_response over a builder with no fields.
create_error_response_no_url(req, status_code, title, message) ==
    LET body == add_error(MasonBuilder(EmptyFcn), title, message)
    IN  Response(JsonBody(body), status_code, EmptyFcn, MASON)

create_error_response(req, status_code, title, message) ==
    LET resource_url == req.path
        body == add_error(MasonBuilder([resource_url |-> resource_url]), title, message)
    IN  Response(JsonBody(body), status_code, EmptyFcn, MASON)

-----------------------------------------------------------------------------
(* The store: tables User and Orders *)

MaxOf(S) == CHOOSE m \in S : \A x \in S : x <= m

\* The primary key the store gives a new User row.
NextUserId(U) == IF U = {} THEN 1 ELSE MaxOf({u.id : u \in U}) + 1

\* The uniqueness constraints of User: username and api_public.
IntegrityError(U, row) ==
    \E u \in U : u.username = row.username \/ u.api_public = row.api_public

\* query.filter_by(...).first(): <<>> for None, else <<row>>. api_public is
\* unique among users, and the venue gives an order identifier to one order only,
\* so at most one row matches.
First(rows) == IF rows = {} THEN <<>> ELSE <<CHOOSE r \in rows : TRUE>>

UserByApiPublic(U, apikey) == First({u \in U : u.api_public = apikey})
OrderByOrderId(O, orderid) == First({o \in O : o.order_id = orderid})
OrdersOfUser(O, user_id) == {o \in O : o.user_id = user_id}

\* db.session.delete(acc); commit: the account's orders go with it (cascade).
DeleteUserCascade(U, O, acc) ==
    [users |-> U \ {acc}, orders |-> {o \in O : o.user_id # acc.id}]

-----------------------------------------------------------------------------
(* The control catalogue: MasonControls *)

add_control_accounts(doc) ==
    add_control(doc, "accounts-all", url_for("Accounts", EmptyFcn),
                [method |-> "GET", title |-> "List all the accounts registered"])

add_control_account(doc, apikey) ==
    add_control(doc, "account", url_for("Account", [apikey |-> apikey]),
                [method |-> "GET", title |-> "Login to account"])

add_control_orders(doc, apikey) ==
    add_control(doc, "orders-all", url_for("OrdersResource", [apikey |-> apikey]),
                [method |-> "GET", title |-> "Get open orders"])

add_control_orderbook(doc) ==
    add_control(doc, "orderbook", url_for("OrderBook", EmptyFcn),
                [method |-> "GET", title |-> "Get order book data"])

add_control_priceaction(doc) ==
    add_control(doc, "priceaction", url_for("PriceAction", EmptyFcn),
                [method |-> "GET",
                 title |-> "Show recent trades that happened in the market"])

add_control_positions(doc, apikey) ==
    add_control(doc, "positions-all", url_for("Positions", [apikey |-> apikey]),
                [method |-> "GET", title |-> "Get open positions"])

add_control_accountbalance(doc, apikey) ==
    add_control(doc, "balance", url_for("AccountBalance", [apikey |-> apikey]),
                [method |-> "GET", title |-> "Get account balance"])

add_control_transactionhistory(doc, apikey) ==
    add_control(doc, "transactions", url_for("TransactionHistory", [apikey |-> apikey]),
                [method |-> "GET", title |-> "Get history of the wallet transactions"])

add_control_add_account(doc) ==
    add_control(doc, "add-account", url_for("Accounts", EmptyFcn),
                [method |-> "POST", encoding |-> "json",
                 title |-> "Add account to cryptotrading API",
                 schema |-> account_schema])

add_control_delete_account(doc, apikey) ==
    add_control(doc, "delete", url_for("Account", [apikey |-> apikey]),
                [method |-> "DELETE", title |-> "delete this account"])

add_control_add_order(doc, apikey) ==
    add_control(doc, "add-order", url_for("OrdersResource", [apikey |-> apikey]),
                [method |-> "POST", encoding |-> "json",
                 title |-> "Add an order to Cryptotrading API",
                 schema |-> order_schema])

add_control_delete_order(doc, apikey, orderid) ==
    add_control(doc, "delete",
                url_for("OrderResource", [apikey |-> apikey, orderid |-> orderid]),
                [method |-> "DELETE", title |-> "delete this order"])

-----------------------------------------------------------------------------
(* Handlers.  Each takes the request, its path parameters, the store (U, O)  *)
(* and, where it calls the venue, the venue's reply; it gives an Outcome.    *)

\* authorize without the comparison of the secret.
authorize_no_compare(model, req) ==
    "api_secret" \in DOMAIN req.headers

\* authorize(model, request)
authorize(model, req) ==
    IF "api_secret" \notin DOMAIN req.headers THEN FALSE
    ELSE IF req.headers.api_secret # model.api_secret THEN FALSE
    ELSE TRUE

AccountNotFound(req, apikey) ==
    create_error_response(req, 404, "Account does not exist",
        JStr("Account with api-key '" \o apikey \o "' does not exist."))

Unauthorized(req) ==
    create_error_response(req, 401, "Unauthorized", JStr("No API-key or wrong API-key"))

entrypoint(req, U, O) ==
    LET body == add_control_priceaction(add_control_orderbook(
                    add_control_accounts(MasonBuilder(EmptyFcn))))
    IN  Outcome(Response(JsonBody(body), 200, EmptyFcn, MASON), U, O, <<>>)

\* The rows of a query, as a sequence in primary-key order.
RECURSIVE UserList(_)
UserList(U) ==
    IF U = {} THEN <<>>
    ELSE LET u == CHOOSE x \in U : \A y \in U : x.id <= y.id
         IN  <<u>> \o UserList(U \ {u})

\* Accounts.get with the body of the empty collection built as that of a
\* populated one.
Accounts_get_empty_as_populated(req, U, O) ==
    LET userlist_q == UserList(U)
        userbody(user) ==
            add_control(MasonBuilder([accountname |-> user.username,
                                      api_public |-> user.api_public]),
                        "self", url_for("Account", [apikey |-> user.api_public]),
                        [title |-> "login to account"])
        userlist == [i \in 1..Len(userlist_q) |-> userbody(userlist_q[i])]
        body == add_control_add_account(MasonBuilder([items |-> userlist]))
    IN  Outcome(Response(JsonBody(body), 200, EmptyFcn, MASON), U, O, <<>>)

Accounts_get(req, U, O) ==
    LET userlist_q == UserList(U)
        userbody(user) ==
            add_control(MasonBuilder([accountname |-> user.username,
                                      api_public |-> user.api_public]),
                        "self", url_for("Account", [apikey |-> user.api_public]),
                        [title |-> "login to account"])
    IN  IF Len(userlist_q) = 0
        THEN LET body == add_control_add_account(
                            add_control(MasonBuilder([items |-> <<>>]), "self",
                                        url_for("Accounts", EmptyFcn), EmptyFcn))
             IN  Outcome(Response(JsonBody(body), 200, EmptyFcn, MASON), U, O, <<>>)
        ELSE LET userlist == [i \in 1..Len(userlist_q) |-> userbody(userlist_q[i])]
                 body == add_control_add_account(MasonBuilder([items |-> userlist]))
             IN  Outcome(Response(JsonBody(body), 200, EmptyFcn, MASON), U, O, <<>>)

\* Accounts.post up to the construction of the User: the 415 and 400 guards.
\* <<>> when the request passes them, else <<the error response>>.
Accounts_post_guards(req) ==
    IF ~Truthy(req.json)
    THEN <<create_error_response(req, 415, "Unsupported media type",
                                 JStr("Requests must be JSON"))>>
    ELSE IF ValidationErrors(req.json, account_schema) # {}
    THEN <<create_error_response(req, 400, "Invalid JSON document",
                                 JStr(ValidationMessage(req.json, account_schema)))>>
    ELSE <<>>

\* Accounts.post from db.session.add(user) on: the commit and the answer.
\* Accounts.post answering 201 whether or not the commit succeeds.
Accounts_post_commit_always_201(req, U, O) ==
    LET user == [id |-> NextUserId(U),
                 username |-> req.json.v.accountname.v,
                 api_public |-> req.json.v.api_public.v,
                 api_secret |-> req.json.v.api_secret.v]
    IN  Outcome(Response(EmptyBody, 201,
                         [Location |-> url_for("Account", [apikey |-> req.json.v.api_public.v])],
                         "text/html"),
                IF IntegrityError(U, user) THEN U ELSE U \cup {user}, O, <<>>)

\* Accounts.post with the Location built from the accountname.
Accounts_post_commit_location_by_name(req, U, O) ==
    LET user == [id |-> NextUserId(U),
                 username |-> req.json.v.accountname.v,
                 api_public |-> req.json.v.api_public.v,
                 api_secret |-> req.json.v.api_secret.v]
    IN  IF IntegrityError(U, user)
        THEN Outcome(create_error_response(req, 409, "Already exists",
                        JStr("Account with name '" \o req.json.v.accountname.v
                             \o "' already exists.")),
                     U, O, <<>>)
        ELSE Outcome(Response(EmptyBody, 201,
                        [Location |-> url_for("Account", [apikey |-> req.json.v.accountname.v])],
                        "text/html"),
                     U \cup {user}, O, <<>>)

Accounts_post_commit(req, U, O) ==
    LET user == [id |-> NextUserId(U),
                 username |-> req.json.v.accountname.v,
                 api_public |-> req.json.v.api_public.v,
                 api_secret |-> req.json.v.api_secret.v]
    IN  IF IntegrityError(U, user)
        THEN Outcome(create_error_response(req, 409, "Already exists",
                        JStr("Account with name '" \o req.json.v.accountname.v
                             \o "' already exists.")),
                     U, O, <<>>)
        ELSE Outcome(Response(EmptyBody, 201,
                        [Location |-> url_for("Account", [apikey |-> req.json.v.api_public.v])],
                        "text/html"),
                     U \cup {user}, O, <<>>)

Accounts_post(req, U, O) ==
    LET g == Accounts_post_guards(req)
    IN  IF g # <<>> THEN Outcome(g[1], U, O, <<>>)
        ELSE Accounts_post_commit(req, U, O)

Account_get(req, apikey, U, O) ==
    LET acc == UserByApiPublic(U, apikey)
    IN  IF acc = <<>> THEN Outcome(AccountNotFound(req, apikey), U, O, <<>>)
        ELSE IF ~authorize(acc[1], req)
        THEN Outcome(create_error_response(req, 401, "Unauthorized",
                        JStr("need secret api-key in the http header")), U, O, <<>>)
        ELSE LET b0 == MasonBuilder([accountname |-> acc[1].username,
                                     api_public |-> acc[1].api_public,
                                     api_secret |-> acc[1].api_secret])
                 b1 == add_control(b0, "self", url_for("Account", [apikey |-> apikey]), EmptyFcn)
                 b2 == add_control_orders(b1, apikey)
                 b3 == add_control_accountbalance(b2, apikey)
                 b4 == add_control_positions(b3, apikey)
                 b5 == add_control_transactionhistory(b4, apikey)
                 b6 == add_control_delete_account(b5, apikey)
                 body == add_control_accounts(b6)
             IN  Outcome(Response(JsonBody(body), 200, EmptyFcn, MASON), U, O, <<>>)

\* Account.delete comparing the secret before it looks at the lookup's result.
Account_delete_auth_first(req, apikey, U, O) ==
    LET acc == UserByApiPublic(U, apikey)
    IN  IF acc = <<>> \/ ~authorize(acc[1], req)
        THEN Outcome(Unauthorized(req), U, O, <<>>)
        ELSE LET s == DeleteUserCascade(U, O, acc[1])
             IN  Outcome(Response(EmptyBody, 204, EmptyFcn, "text/html"),
                         s.users, s.orders, <<>>)

\* Account.delete over a store that keeps the orders of a deleted account.
Account_delete_no_cascade(req, apikey, U, O) ==
    LET acc == UserByApiPublic(U, apikey)
    IN  IF acc = <<>> THEN Outcome(AccountNotFound(req, apikey), U, O, <<>>)
        ELSE IF ~authorize(acc[1], req) THEN Outcome(Unauthorized(req), U, O, <<>>)
        ELSE Outcome(Response(EmptyBody, 204, EmptyFcn, "text/html"), U \ {acc[1]}, O, <<>>)

Account_delete(req, apikey, U, O) ==
    LET acc == UserByApiPublic(U, apikey)
    IN  IF acc = <<>> THEN Outcome(AccountNotFound(req, apikey), U, O, <<>>)
        ELSE IF ~authorize(acc[1], req) THEN Outcome(Unauthorized(req), U, O, <<>>)
        ELSE LET s == DeleteUserCascade(U, O, acc[1])
             IN  Outcome(Response(EmptyBody, 204, EmptyFcn, "text/html"),
                         s.users, s.orders, <<>>)

-----------------------------------------------------------------------------
(* The venue.  A reply is chosen by the venue, not by the program: the       *)
(* handlers take the choice as an input.                                     *)

VenueCall(method, url, data) == [method |-> method, url |-> url, data |-> data]

\* POST /api/v1/order: the order, echoed with the venue's identifier, or an
\* error document.
VenueOrderChoices(O) ==
    {[kind |-> "accept", orderID |-> oid] : oid \in OrderIds \ {o.order_id : o \in O}}
    \cup {[kind |-> "reject"]}

VenuePostOrder(data, choice) ==
    IF choice.kind = "accept"
    THEN [status_code |-> 200,
          json |-> [orderID |-> choice.orderID, orderQty |-> data.orderQty,
                    side |-> data.side, symbol |-> data.symbol, price |-> data.price]]
    ELSE [status_code |-> 400,
          json |-> [error |-> [message |-> "Invalid order", name |-> "HTTPError"]]]

\* DELETE /api/v1/order and POST /api/v1/position/leverage: a status code.
VenueStatusChoices == {[kind |-> "status", status_code |-> c] : c \in {200, 400, 404}}

\* The websocket client: it connects and yields data, or it raises.
position_open ==
    [symbol |-> "XBTUSD", currentQty |-> 1, crossMargin |-> TRUE, leverage |-> 100,
     avgEntryPrice |-> 100, liquidationPrice |-> 50]
position_flat ==
    [symbol |-> "XBTUSD", currentQty |-> 0, crossMargin |-> FALSE, leverage |-> 5,
     avgEntryPrice |-> 0, liquidationPrice |-> 0]
trade_one == [symbol |-> "XBTUSD", side |-> "Buy", size |-> 1, price |-> 100]

VenuePositionChoices ==
    {[kind |-> "ok", positions |-> ps] :
        ps \in {<<>>, <<position_open>>, <<position_flat>>, <<position_open, position_flat>>}}
    \cup {[kind |-> "malformed"], [kind |-> "raise"]}

VenueFundsChoices == {[kind |-> "ok", funds |-> [marginBalance |-> 100]], [kind |-> "raise"]}

VenueTradeChoices ==
    {[kind |-> "ok", trades |-> ts] : ts \in {<<>>, <<trade_one>>}} \cup {[kind |-> "raise"]}

NoVenue == {[kind |-> "none"]}
NoReply == CHOOSE c \in NoVenue : TRUE

-----------------------------------------------------------------------------
(* Handlers of the account-scoped resources *)

AccountBalance_get(req, apikey, U, O, v) ==
    LET acc == UserByApiPublic(U, apikey)
        call == VenueCall("WS", "funds", [api_key |-> apikey])
    IN  IF acc = <<>> THEN Outcome(AccountNotFound(req, apikey), U, O, <<>>)
        ELSE IF ~authorize(acc[1], req) THEN Outcome(Unauthorized(req), U, O, <<>>)
        ELSE IF v.kind = "raise" THEN Outcome(InternalServerError(req), U, O, <<call>>)
        ELSE LET balance == v.funds
                 body == add_control_transactionhistory(
                            add_control_account(MasonBuilder(EmptyFcn), apikey), apikey)
             IN  Outcome(Response(IterBody(body), 200, EmptyFcn, MASON), U, O, <<call>>)

TransactionHistory_get(req, apikey, U, O) ==
    LET acc == UserByApiPublic(U, apikey)
    IN  IF acc = <<>> THEN Outcome(AccountNotFound(req, apikey), U, O, <<>>)
        ELSE IF ~authorize(acc[1], req) THEN Outcome(Unauthorized(req), U, O, <<>>)
        ELSE LET body == add_control_accountbalance(
                            add_control_account(MasonBuilder(EmptyFcn), apikey), apikey)
             IN  Outcome(Response(IterBody(body), 200, EmptyFcn, MASON), U, O, <<>>)

RECURSIVE OrderList(_)
OrderList(S) ==
    IF S = {} THEN <<>>
    ELSE LET o == CHOOSE x \in S : TRUE IN <<o>> \o OrderList(S \ {o})

\* OrdersResource.get listing every stored order.
OrdersResource_get_all_orders(req, apikey, U, O) ==
    LET acc == UserByApiPublic(U, apikey)
    IN  IF acc = <<>> THEN Outcome(AccountNotFound(req, apikey), U, O, <<>>)
        ELSE IF ~authorize(acc[1], req) THEN Outcome(Unauthorized(req), U, O, <<>>)
        ELSE LET orderlist_q == OrderList(O)
                 orderbody(order) ==
                    add_control(MasonBuilder([id |-> order.order_id,
                                              price |-> order.order_price,
                                              symbol |-> order.order_symbol,
                                              side |-> order.order_side,
                                              size |-> order.order_size]),
                                "self",
                                url_for("OrderResource", [apikey |-> acc[1].api_public,
                                                          orderid |-> order.order_id]),
                                EmptyFcn)
                 orderlist == [i \in 1..Len(orderlist_q) |-> orderbody(orderlist_q[i])]
                 body == add_control_account(
                            add_control(
                                add_control_add_order(MasonBuilder([items |-> orderlist]), apikey),
                                "self", url_for("OrdersResource", [apikey |-> apikey]), EmptyFcn),
                            apikey)
             IN  Outcome(Response(JsonBody(body), 200, EmptyFcn, MASON), U, O, <<>>)

OrdersResource_get(req, apikey, U, O) ==
    LET acc == UserByApiPublic(U, apikey)
    IN  IF acc = <<>> THEN Outcome(AccountNotFound(req, apikey), U, O, <<>>)
        ELSE IF ~authorize(acc[1], req) THEN Outcome(Unauthorized(req), U, O, <<>>)
        ELSE LET orderlist_q == OrderList(OrdersOfUser(O, acc[1].id))
                 orderbody(order) ==
                    add_control(MasonBuilder([id |-> order.order_id,
                                              price |-> order.order_price,
                                              symbol |-> order.order_symbol,
                                              side |-> order.order_side,
                                              size |-> order.order_size]),
                                "self",
                                url_for("OrderResource", [apikey |-> acc[1].api_public,
                                                          orderid |-> order.order_id]),
                                EmptyFcn)
                 orderlist == [i \in 1..Len(orderlist_q) |-> orderbody(orderlist_q[i])]
                 \* the branch for no orders and the one for some build the same body
                 body == add_control_account(
                            add_control(
                                add_control_add_order(MasonBuilder([items |-> orderlist]), apikey),
                                "self", url_for("OrdersResource", [apikey |-> apikey]), EmptyFcn),
                            apikey)
             IN  Outcome(Response(JsonBody(body), 200, EmptyFcn, MASON), U, O, <<>>)

\* OrdersResource.post without the comparison of the secret.
OrdersResource_post_no_authorize(req, apikey, U, O, v) ==
    LET acc == UserByApiPublic(U, apikey)
    IN  IF acc = <<>> THEN Outcome(AccountNotFound(req, apikey), U, O, <<>>)
        ELSE IF ~Truthy(req.json)
        THEN Outcome(create_error_response(req, 415, "Unsupported media type",
                        JStr("Requests must be JSON")), U, O, <<>>)
        ELSE IF ValidationErrors(req.json, order_schema) # {}
        THEN Outcome(create_error_response(req, 400, "Invalid JSON document",
                        JStr(ValidationMessage(req.json, order_schema))), U, O, <<>>)
        ELSE LET url == "/api/v1/order"
                 data == [symbol |-> req.json.v.symbol.v,
                          orderQty |-> req.json.v.size.v,
                          price |-> req.json.v.price.v,
                          side |-> req.json.v.side.v]
                 call == VenueCall("POST", url, data)
                 res == VenuePostOrder(data, v)
                 json_response == res.json
             IN  IF "orderID" \notin DOMAIN json_response
                 THEN \* KeyError, not caught
                      Outcome(InternalServerError(req), U, O, <<call>>)
                 ELSE LET order == [order_id |-> json_response.orderID,
                                    order_size |-> json_response.orderQty,
                                    order_side |-> json_response.side,
                                    order_symbol |-> json_response.symbol,
                                    order_price |-> json_response.price,
                                    user_id |-> acc[1].id]
                      IN  Outcome(Response(EmptyBody, 201,
                                     [Location |-> url_for("OrderResource",
                                         [apikey |-> apikey, orderid |-> json_response.orderID])],
                                     "text/html"),
                                  U, O \cup {order}, <<call>>)

OrdersResource_post(req, apikey, U, O, v) ==
    LET acc == UserByApiPublic(U, apikey)
    IN  IF acc = <<>> THEN Outcome(AccountNotFound(req, apikey), U, O, <<>>)
        ELSE IF ~authorize(acc[1], req) THEN Outcome(Unauthorized(req), U, O, <<>>)
        ELSE IF ~Truthy(req.json)
        THEN Outcome(create_error_response(req, 415, "Unsupported media type",
                        JStr("Requests must be JSON")), U, O, <<>>)
        ELSE IF ValidationErrors(req.json, order_schema) # {}
        THEN Outcome(create_error_response(req, 400, "Invalid JSON document",
                        JStr(ValidationMessage(req.json, order_schema))), U, O, <<>>)
        ELSE LET url == "/api/v1/order"
                 data == [symbol |-> req.json.v.symbol.v,
                          orderQty |-> req.json.v.size.v,
                          price |-> req.json.v.price.v,
                          side |-> req.json.v.side.v]
                 call == VenueCall("POST", url, data)
                 res == VenuePostOrder(data, v)
                 json_response == res.json
             IN  IF "orderID" \notin DOMAIN json_response
                 THEN \* KeyError, not caught
                      Outcome(InternalServerError(req), U, O, <<call>>)
                 ELSE LET order == [order_id |-> json_response.orderID,
                                    order_size |-> json_response.orderQty,
                                    order_side |-> json_response.side,
                                    order_symbol |-> json_response.symbol,
                                    order_price |-> json_response.price,
                                    user_id |-> acc[1].id]
                      IN  Outcome(Response(EmptyBody, 201,
                                     [Location |-> url_for("OrderResource",
                                         [apikey |-> apikey, orderid |-> json_response.orderID])],
                                     "text/html"),
                                  U, O \cup {order}, <<call>>)

OrderResource_get(req, apikey, orderid, U, O) ==
    LET acc == UserByApiPublic(U, apikey)
        order == OrderByOrderId(O, orderid)
    IN  IF acc = <<>> THEN Outcome(AccountNotFound(req, apikey), U, O, <<>>)
        ELSE IF ~authorize(acc[1], req) THEN Outcome(Unauthorized(req), U, O, <<>>)
        ELSE IF order = <<>>
        THEN Outcome(create_error_response(req, 404, "Order does not exist",
                        JStr("Order with orderid '" \o orderid \o "' does not exist.")),
                     U, O, <<>>)
        ELSE LET body ==
                    add_control_delete_order(
                        add_control_orders(
                            add_control(MasonBuilder([id |-> order[1].order_id,
                                                      price |-> order[1].order_price,
                                                      symbol |-> order[1].order_symbol,
                                                      side |-> order[1].order_side,
                                                      size |-> order[1].order_size]),
                                        "self",
                                        url_for("OrderResource",
                                                [apikey |-> apikey, orderid |-> order[1].order_id]),
                                        EmptyFcn),
                            apikey),
                        apikey, orderid)
             IN  Outcome(Response(JsonBody(body), 200, EmptyFcn, MASON), U, O, <<>>)

OrderResource_delete(req, apikey, orderid, U, O, v) ==
    LET acc == UserByApiPublic(U, apikey)
        order == OrderByOrderId(O, orderid)
    IN  IF acc = <<>> THEN Outcome(AccountNotFound(req, apikey), U, O, <<>>)
        ELSE IF ~authorize(acc[1], req) THEN Outcome(Unauthorized(req), U, O, <<>>)
        ELSE IF order = <<>>
        THEN Outcome(create_error_response(req, 404, "Order does not exist",
                        JStr("Order with orderid '" \o orderid \o "' does not exist.")),
                     U, O, <<>>)
        ELSE LET url == "/api/v1/order"
                 data == [orderID |-> orderid]
                 call == VenueCall("DELETE", url, data)
                 \* res, the venue's answer v, is not looked at
             IN  Outcome(Response(EmptyBody, 204, EmptyFcn, "text/html"),
                         U, O \ {order[1]}, <<call>>)

OrderResource_put(req, apikey, orderid, U, O) ==
    Outcome(Response(EmptyBody, 503, EmptyFcn, "text/html"), U, O, <<>>)

OrderHistory_get(req, U, O) ==
    Outcome(Response(EmptyBody, 503, EmptyFcn, "text/html"), U, O, <<>>)

OrderBook_get(req, U, O) ==
    Outcome(Response(EmptyBody, 503, EmptyFcn, "text/html"), U, O, <<>>)

BucketedPriceAction_get(req, U, O) ==
    Outcome(Response(EmptyBody, 503, EmptyFcn, "text/html"), U, O, <<>>)

-----------------------------------------------------------------------------
(* Positions and price action *)

QueryError(req) ==
    create_error_response(req, 400, "Query Error", JStr("Query Parameter doesn't exist"))

parsed_position_of(position, apikey) ==
    add_control(MasonBuilder([symbol |-> position.symbol,
                              size |-> position.currentQty,
                              leverage |-> IF position.crossMargin = TRUE THEN 0
                                           ELSE position.leverage,
                              avgEntryPrice |-> position.avgEntryPrice,
                              liquidationPrice |-> position.liquidationPrice]),
                "self",
                url_for("Position", [apikey |-> apikey, symbol |-> position.symbol]),
                EmptyFcn)

Positions_get(req, apikey, U, O, v) ==
    LET acc == UserByApiPublic(U, apikey)
        call == VenueCall("WS", "positions", [api_key |-> apikey, symbol |-> ""])
    IN  IF acc = <<>> THEN Outcome(AccountNotFound(req, apikey), U, O, <<>>)
        ELSE IF ~authorize(acc[1], req) THEN Outcome(Unauthorized(req), U, O, <<>>)
        ELSE IF v.kind = "raise" THEN Outcome(InternalServerError(req), U, O, <<call>>)
        ELSE IF v.kind = "malformed" THEN Outcome(QueryError(req), U, O, <<call>>)
        ELSE LET positions == v.positions
                 parsed_positions ==
                    SelectSeq([i \in 1..Len(positions) |->
                                  [doc |-> parsed_position_of(positions[i], apikey),
                                   qty |-> positions[i].currentQty]],
                              LAMBDA p : ~(p.qty = 0))
                 items == [i \in 1..Len(parsed_positions) |-> parsed_positions[i].doc]
                 body == add_control(
                            add_control_account(MasonBuilder([items |-> items]), apikey),
                            "self", url_for("Positions", [apikey |-> apikey]), EmptyFcn)
             IN  Outcome(Response(JsonBody(body), 200, EmptyFcn, MASON), U, O, <<call>>)

Position_get(req, apikey, symbol, U, O, v) ==
    LET acc == UserByApiPublic(U, apikey)
        call == VenueCall("WS", "positions", [api_key |-> apikey, symbol |-> symbol])
    IN  IF acc = <<>> THEN Outcome(AccountNotFound(req, apikey), U, O, <<>>)
        ELSE IF ~authorize(acc[1], req) THEN Outcome(Unauthorized(req), U, O, <<>>)
        ELSE IF v.kind = "raise" THEN Outcome(InternalServerError(req), U, O, <<call>>)
        ELSE IF v.kind = "malformed" THEN Outcome(QueryError(req), U, O, <<call>>)
        ELSE LET positions == v.positions
                 parsed(position) ==
                    add_control_positions(
                        add_control(parsed_position_of(position, apikey), "edit",
                                    url_for("Position",
                                            [apikey |-> apikey, symbol |-> position.symbol]),
                                    [method |-> "PATCH", encoding |-> "json",
                                     title |-> "Change position leverage",
                                     schema |-> position_schema]),
                        apikey)
                 parsed_positions == [i \in 1..Len(positions) |-> parsed(positions[i])]
             IN  IF Len(parsed_positions) = 1
                 THEN Outcome(Response(JsonBody(parsed_positions[1]), 200, EmptyFcn, MASON),
                              U, O, <<call>>)
                 ELSE Outcome(Response([kind |-> "json-list", list |-> parsed_positions],
                                       200, EmptyFcn, MASON),
                              U, O, <<call>>)

Position_patch(req, apikey, symbol, U, O, v) ==
    LET acc == UserByApiPublic(U, apikey)
    IN  IF acc = <<>> THEN Outcome(AccountNotFound(req, apikey), U, O, <<>>)
        ELSE IF ~authorize(acc[1], req) THEN Outcome(Unauthorized(req), U, O, <<>>)
        ELSE IF ~Truthy(req.json)
        THEN Outcome(create_error_response(req, 415, "Unsupported media type",
                        JStr("Requests must be JSON")), U, O, <<>>)
        ELSE IF ValidationErrors(req.json, position_schema) # {}
        THEN Outcome(create_error_response(req, 400, "Invalid JSON document",
                        JStr(ValidationMessage(req.json, position_schema))), U, O, <<>>)
        ELSE LET data == [symbol |-> symbol, leverage |-> req.json.v.leverage.v]
                 url == "/api/v1/position/leverage"
                 call == VenueCall("POST", url, data)
                 res == v
             IN  IF res.status_code = 400
                 THEN Outcome(create_error_response(req, 400, "Parameter Error",
                                 JStr("One of the parameters have an invalid value")),
                              U, O, <<call>>)
                 ELSE Outcome(Response(EmptyBody, 204, EmptyFcn, "application/json"),
                              U, O, <<call>>)

PriceAction_get(req, U, O, v) ==
    IF DOMAIN req.args = {}
    THEN Outcome(create_error_response(req, 400, "Query Error",
                    JStr("Missing Query Parameter \"symbol\"")), U, O, <<>>)
    ELSE IF "symbol" \notin DOMAIN req.args
    THEN Outcome(QueryError(req), U, O, <<>>)
    ELSE IF req.args.symbol = ""
    THEN \* the handler returns None, which the framework serialises as null, 200
         Outcome(Response([kind |-> "json-null"], 200, EmptyFcn, "application/json"),
                 U, O, <<>>)
    ELSE LET call == VenueCall("WS", "recent_trades", [symbol |-> req.args.symbol])
         IN  IF v.kind = "raise" \/ Len(v.trades) = 0
             THEN Outcome(QueryError(req), U, O, <<call>>)
             ELSE LET trade == v.trades[Len(v.trades)]
                      body == add_control(
                                add_control(MasonBuilder([symbol |-> trade.symbol,
                                                          side |-> trade.side,
                                                          size |-> trade.size,
                                                          price |-> trade.price]),
                                            "buckets",
                                            url_for("BucketedPriceAction", EmptyFcn)
                                                \o <<"?{timebucket}">>,
                                            [title |-> "Trades in time buckets"]),
                                "self",
                                url_for("PriceAction", EmptyFcn) \o <<"?symbol=" \o trade.symbol>>,
                                EmptyFcn)
                  IN  Outcome(Response(JsonBody(body), 200, EmptyFcn, MASON), U, O, <<call>>)

-----------------------------------------------------------------------------
(* Dispatch: the route's resource, its method, called with the path parameters *)

\* The handler of resource r for the request's method, called with the path
\* parameters a.
Call(r, a, req, U, O, v) ==
    CASE r = "Entry" -> entrypoint(req, U, O)
      [] r = "Accounts" /\ req.method = "GET" -> Accounts_get(req, U, O)
      [] r = "Accounts" /\ req.method = "POST" -> Accounts_post(req, U, O)
      [] r = "Account" /\ req.method = "GET" -> Account_get(req, a.apikey, U, O)
      [] r = "Account" /\ req.method = "DELETE" -> Account_delete(req, a.apikey, U, O)
      [] r = "AccountBalance" -> AccountBalance_get(req, a.apikey, U, O, v)
      [] r = "TransactionHistory" -> TransactionHistory_get(req, a.apikey, U, O)
      [] r = "OrdersResource" /\ req.method = "GET" -> OrdersResource_get(req, a.apikey, U, O)
      [] r = "OrdersResource" /\ req.method = "POST" ->
            OrdersResource_post(req, a.apikey, U, O, v)
      [] r = "OrderResource" /\ req.method = "GET" ->
            OrderResource_get(req, a.apikey, a.orderid, U, O)
      [] r = "OrderResource" /\ req.method = "DELETE" ->
            OrderResource_delete(req, a.apikey, a.orderid, U, O, v)
      [] r = "OrderResource" /\ req.method = "PUT" ->
            OrderResource_put(req, a.apikey, a.orderid, U, O)
      [] r = "OrderHistory" -> OrderHistory_get(req, U, O)
      [] r = "OrderBook" -> OrderBook_get(req, U, O)
      [] r = "PriceAction" -> PriceAction_get(req, U, O, v)
      [] r = "BucketedPriceAction" -> BucketedPriceAction_get(req, U, O)
      [] r = "Positions" -> Positions_get(req, a.apikey, U, O, v)
      [] r = "Position" /\ req.method = "GET" -> Position_get(req, a.apikey, a.symbol, U, O, v)
      [] r = "Position" /\ req.method = "PATCH" ->
            Position_patch(req, a.apikey, a.symbol, U, O, v)

\* The view of the matched rule m (<<>> when none matched).
DispatchTo(m, req, U, O, v) ==
    IF m = <<>> THEN Outcome(NotFound(req), U, O, <<>>)
    ELSE IF req.method \notin DOMAIN HandlerParams[m[1].resource]
    THEN Outcome(MethodNotAllowed(req), U, O, <<>>)
    ELSE IF HandlerParams[m[1].resource][req.method] # DOMAIN m[1].args
    THEN \* TypeError: the method does not take the route's parameters
         Outcome(InternalServerError(req), U, O, <<>>)
    ELSE Call(m[1].resource, m[1].args, req, U, O, v)

Dispatch(req, U, O, v) == DispatchTo(Resolve(req.path), req, U, O, v)

-----------------------------------------------------------------------------
(* Request inputs *)

ValidAccountBodies ==
    {JObj([accountname |-> JStr(n), api_public |-> JStr(k), api_secret |-> JStr(s)]) :
        n \in Names, k \in Keys, s \in Secrets}

AccountBodies ==
    ValidAccountBodies
    \cup {JNull, JObj(EmptyFcn),
          JObj([accountname |-> JStr("n1"), api_public |-> JStr("k1")]),
          JObj([accountname |-> JStr("n1"), api_public |-> JStr("k1"),
                api_secret |-> JInt(1)])}

ValidOrderBodies ==
    {JObj([symbol |-> JStr("XBTUSD"), size |-> JInt(1), price |-> JInt(100),
           side |-> JStr("Buy")])}

OrderBodies ==
    ValidOrderBodies
    \cup {JNull, JObj(EmptyFcn),
          JObj([symbol |-> JStr("XBTUSD"), size |-> JInt(1), side |-> JStr("Buy")]),
          JObj([symbol |-> JStr("XBTUSD"), size |-> JInt(1), price |-> JStr("100"),
                side |-> JStr("Buy")])}

PositionBodies ==
    {JNull, JObj(EmptyFcn), JObj([leverage |-> JInt(5)]), JObj([leverage |-> JStr("5")]),
     JObj([symbol |-> JStr("XBTUSD")])}

QueryArgs == {EmptyFcn, [symbol |-> "XBTUSD"], [symbol |-> ""], [count |-> "1"]}
SomeQueryArgs == {EmptyFcn, [symbol |-> ""]}

-----------------------------------------------------------------------------
(* Actions: one per operation of the API *)

Init ==
    /\ users = {}
    /\ orders = {}
    /\ last = [req |-> NoRequest, resp |-> NoResponse, venue |-> <<>>, reply |-> NoReply]
    /\ inflight = [w \in Workers |-> <<>>]
    /\ answered = [w \in Workers |-> <<>>]
    /\ built = <<>>

\* The store and the record of the exchange after an outcome: the request, the
\* response, the calls made to the venue and what the venue replied.
Apply(req, out, reply) ==
    /\ users' = out.users
    /\ orders' = out.orders
    /\ last' = [req |-> req, resp |-> out.resp, venue |-> out.venue, reply |-> reply]
    /\ UNCHANGED <<inflight, answered, built>>

\* One request served from start to end.  The venue answers only when the
\* handler calls it: its choices matter for the requests that reach it.
ServeWith(req, choices, probe) ==
    IF probe.venue = <<>> THEN Apply(req, probe, NoReply)
    ELSE \E v \in choices : Apply(req, Dispatch(req, users, orders, v), v)

Serve(req, choices) ==
    ServeWith(req, choices, Dispatch(req, users, orders, CHOOSE c \in choices : TRUE))

\* The sequential service takes a request when no POST /accounts/ is in flight.
Idle == \A w \in Workers : inflight[w] = <<>>

Get(path, h) == Request("GET", path, h, JNull, EmptyFcn)

GetEntry ==
    /\ Idle
    /\ \E h \in HeaderSets : Serve(Get(url_for("Entry", EmptyFcn), h), NoVenue)

GetAccounts ==
    /\ Idle
    /\ \E h \in HeaderSets : Serve(Get(url_for("Accounts", EmptyFcn), h), NoVenue)

\* The model stops at MaxId: a POST /accounts/ that would insert a row is taken
\* only while the new row's key is within the bound.
StoreHasRoom(req) ==
    IF Accounts_post_guards(req) # <<>>
    THEN TRUE
    ELSE IF Accounts_post_commit(req, users, orders).users = users
         THEN TRUE
         ELSE NextUserId(users) <= MaxId

PostAccountsRequest(b) == Request("POST", url_for("Accounts", EmptyFcn), NoHeaders, b, EmptyFcn)

PostAccounts ==
    /\ Idle
    /\ \E b \in AccountBodies :
          /\ StoreHasRoom(PostAccountsRequest(b))
          /\ Serve(PostAccountsRequest(b), NoVenue)

GetAccount ==
    /\ Idle
    /\ \E k \in Keys, h \in HeaderSets : Serve(Get(url_for("Account", [apikey |-> k]), h), NoVenue)

DeleteAccount ==
    /\ Idle
    /\ \E k \in Keys, h \in HeaderSets :
           Serve(Request("DELETE", url_for("Account", [apikey |-> k]), h, JNull, EmptyFcn), NoVenue)

GetBalance ==
    /\ Idle
    /\ \E k \in Keys, h \in HeaderSets :
           Serve(Get(url_for("AccountBalance", [apikey |-> k]), h), VenueFundsChoices)

GetTransactionHistory ==
    /\ Idle
    /\ \E k \in Keys, h \in HeaderSets :
           Serve(Get(url_for("TransactionHistory", [apikey |-> k]), h), NoVenue)

GetOrders ==
    /\ Idle
    /\ \E k \in Keys, h \in HeaderSets :
           Serve(Get(url_for("OrdersResource", [apikey |-> k]), h), NoVenue)

PostOrders ==
    /\ Idle
    /\ \E k \in Keys, h \in HeaderSets, b \in OrderBodies :
           Serve(Request("POST", url_for("OrdersResource", [apikey |-> k]), h, b, EmptyFcn),
                 VenueOrderChoices(orders))

GetOrder ==
    /\ Idle
    /\ \E k \in Keys, o \in OrderIds, h \in HeaderSets :
           Serve(Get(url_for("OrderResource", [apikey |-> k, orderid |-> o]), h), NoVenue)

DeleteOrder ==
    /\ Idle
    /\ \E k \in Keys, o \in OrderIds, h \in HeaderSets :
           Serve(Request("DELETE", url_for("OrderResource", [apikey |-> k, orderid |-> o]),
                         h, JNull, EmptyFcn), VenueStatusChoices)

PutOrder ==
    /\ Idle
    /\ \E k \in Keys, o \in OrderIds, h \in HeaderSets, b \in {JNull} \cup ValidOrderBodies :
           Serve(Request("PUT", url_for("OrderResource", [apikey |-> k, orderid |-> o]),
                         h, b, EmptyFcn), NoVenue)

GetOrderHistory ==
    /\ Idle
    /\ \E k \in Keys, h \in HeaderSets :
           Serve(Get(url_for("OrderHistory", [apikey |-> k]), h), NoVenue)

GetOrderBook ==
    /\ Idle
    /\ \E h \in HeaderSets, q \in SomeQueryArgs :
           Serve(Request("GET", url_for("OrderBook", EmptyFcn), h, JNull, q), NoVenue)

GetPriceAction ==
    /\ Idle
    /\ \E q \in QueryArgs :
           Serve(Request("GET", url_for("PriceAction", EmptyFcn), NoHeaders, JNull, q),
                 VenueTradeChoices)

GetBucketedPriceAction ==
    /\ Idle
    /\ \E h \in HeaderSets, q \in SomeQueryArgs :
           Serve(Request("GET", url_for("BucketedPriceAction", EmptyFcn), h, JNull, q), NoVenue)

GetPositions ==
    /\ Idle
    /\ \E k \in Keys, h \in HeaderSets :
           Serve(Get(url_for("Positions", [apikey |-> k]), h), VenuePositionChoices)

GetPosition ==
    /\ Idle
    /\ \E k \in Keys, sy \in Symbols, h \in HeaderSets :
           Serve(Get(url_for("Position", [apikey |-> k, symbol |-> sy]), h),
                 VenuePositionChoices)

PatchPosition ==
    /\ Idle
    /\ \E k \in Keys, sy \in Symbols, h \in HeaderSets, b \in PositionBodies :
           Serve(Request("PATCH", url_for("Position", [apikey |-> k, symbol |-> sy]),
                         h, b, EmptyFcn), VenueStatusChoices)

\* Concurrent POST /accounts/: a worker takes the request, passes the 415 and 400
\* guards and builds its User; the commit is a later step, so that other workers'
\* requests come between.  The store's commit is atomic.
ConcurrentBodies ==
    {b \in ValidAccountBodies : b.v.api_secret.v = "s1"} \cup {JNull}

Receive(w) ==
    /\ inflight[w] = <<>>
    /\ \E b \in ConcurrentBodies :
          \E g \in {Accounts_post_guards(PostAccountsRequest(b))} :
             IF g # <<>>
             THEN /\ answered' = [answered EXCEPT
                                    ![w] = <<[req |-> PostAccountsRequest(b), resp |-> g[1]]>>]
                  /\ UNCHANGED inflight
             ELSE /\ inflight' = [inflight EXCEPT ![w] = <<PostAccountsRequest(b)>>]
                  /\ answered' = [answered EXCEPT ![w] = <<>>]
    /\ UNCHANGED <<users, orders, last, built>>

Commit(w) ==
    /\ inflight[w] # <<>>
    /\ StoreHasRoom(inflight[w][1])
    /\ \E out \in {Accounts_post_commit(inflight[w][1], users, orders)} :
          /\ users' = out.users
          /\ orders' = out.orders
          /\ answered' = [answered EXCEPT ![w] = <<[req |-> inflight[w][1], resp |-> out.resp]>>]
    /\ inflight' = [inflight EXCEPT ![w] = <<>>]
    /\ UNCHANGED <<last, built>>

NextConcurrent == \E w \in Workers : Receive(w) \/ Commit(w)

\* create_error_response applied to any status code, title and message.
ErrorStatusCodes == {400, 401, 404, 409, 415, 503}
ErrorTitles ==
    {"Account does not exist", "Order does not exist", "Unauthorized", "Unsupported media type",
     "Invalid JSON document", "Already exists", "Query Error", "Parameter Error"}
ErrorMessages ==
    {JNull, JStr(""), JStr("Requests must be JSON"), JStr("No API-key or wrong API-key")}
ErrorPaths ==
    {url_for("Accounts", EmptyFcn), url_for("Account", [apikey |-> "k1"]),
     url_for("OrdersResource", [apikey |-> "k1"])}

BuildError ==
    /\ Idle
    /\ \E c \in ErrorStatusCodes, title \in ErrorTitles, message \in ErrorMessages,
          path \in ErrorPaths :
          built' = <<[status_code |-> c, title |-> title, message |-> message, path |-> path,
                      resp |-> create_error_response(Get(path, NoHeaders), c, title, message)]>>
    /\ UNCHANGED <<users, orders, last, inflight, answered>>

\* Requests under /accounts/{apikey}/ without the account's secret: every route
\* of an existing account, the header absent or holding another secret.  The
\* methods are those the resource of the route defines; on the account itself
\* also those it does not define, which the framework answers.  A method with a
\* body carries one the resource would accept.
Methods == {"GET", "POST", "DELETE", "PUT", "PATCH"}

MethodsOf(path) ==
    IF Resolve(path)[1].resource = "Account" THEN Methods
    ELSE DOMAIN HandlerParams[Resolve(path)[1].resource]

ScopedPaths(apikey) ==
    {url_for(r, [apikey |-> apikey]) :
        r \in {"Account", "OrdersResource", "OrderHistory", "TransactionHistory",
               "AccountBalance", "Positions"}}
    \cup {url_for("OrderResource", [apikey |-> apikey, orderid |-> o]) : o \in OrderIds}
    \cup {url_for("Position", [apikey |-> apikey, symbol |-> y]) : y \in Symbols}

BodyFor(method, path) ==
    IF method \in {"GET", "DELETE"} THEN JNull
    ELSE IF Resolve(path)[1].resource = "Position" THEN JObj([leverage |-> JInt(5)])
    ELSE CHOOSE b \in ValidOrderBodies : TRUE

\* The replies of the venue to the call the handler of the request would make.
ChoicesFor(method, path) ==
    LET r == Resolve(path)[1].resource
    IN  IF r = "OrdersResource" /\ method = "POST" THEN VenueOrderChoices(orders)
        ELSE IF r = "OrderResource" /\ method = "DELETE" THEN VenueStatusChoices
        ELSE IF r = "Position" /\ method = "PATCH" THEN VenueStatusChoices
        ELSE IF r = "AccountBalance" THEN VenueFundsChoices
        ELSE IF r \in {"Positions", "Position"} THEN VenuePositionChoices
        ELSE NoVenue

LacksSecret(h, u) ==
    IF "api_secret" \notin DOMAIN h THEN TRUE ELSE h.api_secret # u.api_secret

Denied ==
    /\ Idle
    /\ \E u \in users, h \in HeaderSets :
          /\ LacksSecret(h, u)
          /\ \E path \in ScopedPaths(u.api_public) :
                \E method \in MethodsOf(path) :
                   Serve(Request(method, path, h, BodyFor(method, path), EmptyFcn),
                         ChoicesFor(method, path))

\* The operations that change the store.
Mutate ==
    \/ PostAccounts
    \/ DeleteAccount
    \/ PostOrders
    \/ DeleteOrder

\* The account resources.
NextAccounts ==
    \/ Mutate
    \/ GetEntry
    \/ GetAccounts
    \/ GetAccount

\* The order resources and the resources that are not implemented.
NextOrders ==
    \/ Mutate
    \/ GetOrders
    \/ GetOrder
    \/ PutOrder
    \/ GetOrderHistory
    \/ GetOrderBook
    \/ GetBucketedPriceAction

\* The handlers with every kind of guard: an account and an order to resolve, a
\* secret to compare, a body to find and to validate.
NextGuards ==
    \/ Mutate
    \/ GetAccount
    \/ GetOrder
    \/ PatchPosition

\* The collections: accounts, an account's orders, an account's positions.
NextCollections ==
    \/ Mutate
    \/ GetAccounts
    \/ GetOrders
    \/ GetPositions

\* The price action next to the operations on the store.
NextPriceAction ==
    \/ Mutate
    \/ GetPriceAction

\* The balance next to the operations on the store.
NextBalance ==
    \/ Mutate
    \/ GetBalance

\* The requests without the secret next to the operations on the store.
NextDenied ==
    \/ Mutate
    \/ Denied

\* The whole API.
Next ==
    \/ Mutate
    \/ GetEntry
    \/ GetAccounts
    \/ GetAccount
    \/ GetBalance
    \/ GetTransactionHistory
    \/ GetOrders
    \/ GetOrder
    \/ PutOrder
    \/ GetOrderHistory
    \/ GetOrderBook
    \/ GetPriceAction
    \/ GetBucketedPriceAction
    \/ GetPositions
    \/ GetPosition
    \/ PatchPosition

\* A handler that reads leaves the store as it is, and last holds the latest
\* exchange only: the stores the whole API reaches are those Mutate reaches, and a
\* property of some resources is checked under Mutate and those resources.
Spec == Init /\ [][Next]_vars
SpecStore == Init /\ [][Mutate]_vars
SpecAccounts == Init /\ [][NextAccounts]_vars
SpecOrders == Init /\ [][NextOrders]_vars
SpecGuards == Init /\ [][NextGuards]_vars
SpecCollections == Init /\ [][NextCollections]_vars
SpecPriceAction == Init /\ [][NextPriceAction]_vars
SpecBalance == Init /\ [][NextBalance]_vars
SpecDenied == Init /\ [][NextDenied]_vars
SpecConcurrent == Init /\ [][NextConcurrent]_vars
SpecError == Init /\ [][BuildError]_vars

-----------------------------------------------------------------------------
(* Properties *)

\* The request is for the given method of the given resource.
Targets(req, method, resource) ==
    /\ req.method = method
    /\ Resolve(req.path) # <<>>
    /\ Resolve(req.path)[1].resource = resource

PathArg(req, name) == Resolve(req.path)[1].args[name]

AccountControls ==
    {"self", "orders-all", "balance", "positions-all", "transactions", "delete", "accounts-all"}

\* C1: GET /accounts/{apikey}/ for an existing account is answered 401 without
\* the api_secret header, 401 with a secret other than the stored one, and 200
\* with the stored one; the 200 body's @controls holds exactly the seven relations
\* self, orders-all, balance, positions-all, transactions, delete, accounts-all.
C1_AccountLookup ==
    Targets(last.req, "GET", "Account") =>
        \A acc \in {u \in users : u.api_public = PathArg(last.req, "apikey")} :
            IF "api_secret" \notin DOMAIN last.req.headers
            THEN last.resp.status = 401
            ELSE IF last.req.headers.api_secret # acc.api_secret
            THEN last.resp.status = 401
            ELSE /\ last.resp.status = 200
                 /\ last.resp.body.kind = "json"
                 /\ Relations(last.resp.body.doc) = AccountControls
                 /\ Cardinality(AccountControls) = 7

C1_Witness ==
    /\ Targets(last.req, "GET", "Account")
    /\ last.resp.status = 200
    /\ \E u \in users : u.api_public = PathArg(last.req, "apikey")

\* A step that serves POST /accounts/ with a schema-valid body.
PostsValidAccount(req) ==
    /\ Targets(req, "POST", "Accounts")
    /\ req.json \in ValidAccountBodies

\* The first of the two POSTs: 201, Location is the new account's URL, and a GET
\* on it with the registered secret is answered 200.
FirstPostCreates ==
    /\ last'.resp.status = 201
    /\ DOMAIN last'.resp.headers = {"Location"}
    /\ last'.resp.headers.Location =
          url_for("Account", [apikey |-> last'.req.json.v.api_public.v])
    /\ Dispatch(Get(last'.resp.headers.Location,
                    SecretHeader(last'.req.json.v.api_secret.v)),
                users', orders', NoReply).resp.status = 200

\* The second POST, with the accountname of the first, follows the first at once:
\* 409, and the store holds exactly one account of that name.
SecondPostConflicts ==
    (/\ PostsValidAccount(last.req)
     /\ last.resp.status = 201
     /\ PostsValidAccount(last'.req)
     /\ last'.req.json.v.accountname.v = last.req.json.v.accountname.v)
    => /\ last'.resp.status = 409
       /\ Cardinality({u \in users' : u.username = last'.req.json.v.accountname.v}) = 1

\* C2 as stated: from any store in which the name is free, two successive POSTs
\* to /accounts/ with schema-valid bodies of the same accountname give 201 (with
\* a Location on which GET with the registered secret gives 200) and then 409,
\* leaving exactly one account of that name.
C2_NameFreeOnly ==
    [][/\ (/\ PostsValidAccount(last'.req)
           /\ \A u \in users : u.username # last'.req.json.v.accountname.v)
          => FirstPostCreates
       /\ SecondPostConflicts]_vars

\* C2: the same, from any store in which the name and the public key of the first
\* body are both free.
C2_NameAndKeyFree ==
    [][/\ (/\ PostsValidAccount(last'.req)
           /\ \A u \in users : /\ u.username # last'.req.json.v.accountname.v
                               /\ u.api_public # last'.req.json.v.api_public.v)
          => FirstPostCreates
       /\ SecondPostConflicts]_vars

C2_Witness ==
    /\ PostsValidAccount(last.req)
    /\ last.resp.status = 409
    /\ \E u \in users : /\ u.username = last.req.json.v.accountname.v
                        /\ u.api_public # last.req.json.v.api_public.v

\* The account the request's path names exists and the request carries its secret.
Authorized(req, U) ==
    \E u \in U : /\ u.api_public = PathArg(req, "apikey")
                 /\ "api_secret" \in DOMAIN req.headers
                 /\ req.headers.api_secret = u.api_secret

\* C3: POST /accounts/{apikey}/orders/ by an existing, authorized account with a
\* body lacking a required order-schema field is answered 400 with the
\* validator's message, and the Order rows are the same afterwards.
C3_MissingFieldIs400 ==
    [][(/\ Targets(last'.req, "POST", "OrdersResource")
        /\ Authorized(last'.req, users)
        /\ last'.req.json.t = "object"
        /\ \E i \in 1..Len(order_schema.required) :
              order_schema.required[i] \notin DOMAIN last'.req.json.v)
       => /\ last'.resp.status = 400
          /\ last'.resp.body.doc["@error"]["@messages"] =
                <<ValidationMessage(last'.req.json, order_schema)>>
          /\ orders' = orders]_vars

\* C4: DELETE /accounts/{apikey}/ where no stored account has that public key is
\* answered 404 whatever the headers, and the store is unchanged.
C4_DeleteAbsentAccount ==
    [][(/\ Targets(last'.req, "DELETE", "Account")
        /\ \A u \in users : u.api_public # PathArg(last'.req, "apikey"))
       => /\ last'.resp.status = 404
          /\ users' = users
          /\ orders' = orders]_vars

C4_Witness ==
    /\ Targets(last.req, "DELETE", "Account")
    /\ last.resp.status = 404
    /\ "api_secret" \in DOMAIN last.req.headers
    /\ users # {}

\* The requests the API does not implement yet.
NotImplemented(req) ==
    \/ req.method = "GET" /\ req.path = <<"orderbook">>
    \/ req.method = "GET" /\ req.path = <<"priceaction", "bucketed">>
    \/ /\ req.method = "GET"
       /\ Len(req.path) = 4
       /\ req.path[1] = "accounts" /\ req.path[3] = "orders" /\ req.path[4] = "history"
    \/ /\ req.method = "PUT"
       /\ Len(req.path) = 4
       /\ req.path[1] = "accounts" /\ req.path[3] = "orders" /\ req.path[4] # "history"

\* C5: every request to a resource not implemented yet (GET /orderbook/,
\* GET /priceaction/bucketed/, GET /accounts/{apikey}/orders/history/,
\* PUT /accounts/{apikey}/orders/{orderid}/) is answered 503 whatever the input,
\* and changes nothing in the store.
C5_NotImplementedIs503 ==
    [][NotImplemented(last'.req)
       => /\ last'.resp.status = 503
          /\ users' = users
          /\ orders' = orders]_vars

\* C6: an authorized GET /accounts/{apikey}/orders/ for an account owning N
\* stored orders returns exactly N items, one per owned order, each with a self
\* control on the order's URL, on which an authorized GET is answered 200.
C6_OneItemPerOwnedOrder ==
    (/\ Targets(last.req, "GET", "OrdersResource")
     /\ Authorized(last.req, users))
    => \A acc \in {u \in users : u.api_public = PathArg(last.req, "apikey")} :
         LET owned == {o \in orders : o.user_id = acc.id}
             items == last.resp.body.doc.items
         IN  /\ last.resp.status = 200
             /\ Len(items) = Cardinality(owned)
             /\ {items[i].id : i \in 1..Len(items)} = {o.order_id : o \in owned}
             /\ \A i \in 1..Len(items) :
                  /\ items[i]["@controls"].self.href =
                        url_for("OrderResource",
                                [apikey |-> acc.api_public, orderid |-> items[i].id])
                  /\ Dispatch(Get(items[i]["@controls"].self.href, last.req.headers),
                              users, orders, NoReply).resp.status = 200

C6_Witness ==
    /\ Targets(last.req, "GET", "OrdersResource")
    /\ Authorized(last.req, users)
    /\ Len(last.resp.body.doc.items) >= 1
    /\ \E o \in orders, u \in users :
          u.api_public = PathArg(last.req, "apikey") /\ o.user_id # u.id

\* The handlers that are implemented, with the schema of those that carry a body.
Implemented ==
    [Accounts |-> {"POST"},
     Account |-> {"GET", "DELETE"},
     AccountBalance |-> {"GET"},
     TransactionHistory |-> {"GET"},
     OrdersResource |-> {"GET", "POST"},
     OrderResource |-> {"GET", "DELETE"},
     Positions |-> {"GET"},
     Position |-> {"GET", "PATCH"}]

BodySchema ==
    [Accounts |-> account_schema, OrdersResource |-> order_schema, Position |-> position_schema]

\* The status the fixed guard order gives a request, 0 when no guard fails.
GuardStatus(req, U, O) ==
    LET m == Resolve(req.path)[1]
    IN  IF "apikey" \in DOMAIN m.args /\ UserByApiPublic(U, m.args.apikey) = <<>> THEN 404
        ELSE IF "orderid" \in DOMAIN m.args /\ OrderByOrderId(O, m.args.orderid) = <<>> THEN 404
        ELSE IF "apikey" \in DOMAIN m.args /\ ~Authorized(req, U) THEN 401
        ELSE IF req.method \in {"POST", "PATCH"} /\ req.json = JNull THEN 415
        ELSE IF /\ req.method \in {"POST", "PATCH"}
                /\ ValidationErrors(req.json, BodySchema[m.resource]) # {} THEN 400
        ELSE 0

\* C7: every implemented handler answers by the first guard that fails in the
\* order 404 (account, then order, absent), 401 (secret absent or wrong), 415 (no
\* body), 400 (the body fails the schema); a present body that fails the schema
\* is answered 400, not 415.
C7_GuardOrder ==
    [][(/\ Resolve(last'.req.path) # <<>>
        /\ Resolve(last'.req.path)[1].resource \in DOMAIN Implemented
        /\ last'.req.method \in Implemented[Resolve(last'.req.path)[1].resource]
        /\ GuardStatus(last'.req, users, orders) # 0)
       => last'.resp.status = GuardStatus(last'.req, users, orders)]_vars

\* Every Order row has exactly one owner among the stored accounts.
OwnedByOneAccount(U, O) ==
    \A o \in O : Cardinality({u \in U : u.id = o.user_id}) = 1

\* C8: in every store reachable by account creation, order placement, order
\* cancellation and account deletion each Order row is owned by exactly one
\* stored Account row, and deleting an account removes exactly its orders.
C8_OwnershipAndCascade ==
    [][/\ OwnedByOneAccount(users', orders')
       /\ (Targets(last'.req, "DELETE", "Account") /\ last'.resp.status = 204)
          => \E acc \in users :
                /\ acc.api_public = PathArg(last'.req, "apikey")
                /\ users' = users \ {acc}
                /\ orders' = {o \in orders : o.user_id # acc.id}]_vars

C8_Witness ==
    /\ Targets(last.req, "DELETE", "Account")
    /\ last.resp.status = 204
    /\ users # {}
    /\ orders # {}

\* A worker holds the answer to a POST /accounts/ with a schema-valid body.
AnsweredCreation(w) ==
    /\ answered[w] # <<>>
    /\ answered[w][1].req.json \in ValidAccountBodies

\* C9: under every interleaving of concurrent POST /accounts/ no store holds two
\* accounts of one username or one public key; of the creations with one
\* accountname at most one is answered 201, every other one 409.
C9_UniqueUnderConcurrency ==
    /\ \A u1, u2 \in users :
          (u1.username = u2.username \/ u1.api_public = u2.api_public) => u1 = u2
    /\ \A w \in Workers :
          AnsweredCreation(w) => answered[w][1].resp.status \in {201, 409}
    /\ \A w1, w2 \in Workers :
          (/\ w1 # w2
           /\ AnsweredCreation(w1)
           /\ AnsweredCreation(w2)
           /\ answered[w1][1].req.json.v.accountname.v = answered[w2][1].req.json.v.accountname.v)
          => ~(answered[w1][1].resp.status = 201 /\ answered[w2][1].resp.status = 201)

C9_Witness ==
    \E w1, w2 \in Workers :
        /\ AnsweredCreation(w1)
        /\ AnsweredCreation(w2)
        /\ answered[w1][1].req.json.v.accountname.v = answered[w2][1].req.json.v.accountname.v
        /\ answered[w1][1].req.json.v.api_public.v # answered[w2][1].req.json.v.api_public.v
        /\ answered[w1][1].resp.status = 201
        /\ answered[w2][1].resp.status = 409

\* C10 as stated: the error document has @error as its only top-level key, with
\* @error = {@message: title, @messages: [message]}, for every status code,
\* title and message.
C10_OnlyError ==
    built # <<>> =>
        LET doc == built[1].resp.body.doc
        IN  /\ DOMAIN doc = {"@error"}
            /\ DOMAIN doc["@error"] = {"@message", "@messages"}
            /\ doc["@error"]["@message"] = built[1].title
            /\ Len(doc["@error"]["@messages"]) = 1
            /\ built[1].message.t = "string"
                  => doc["@error"]["@messages"][1] = built[1].message.v

\* C10: the error document has exactly the top-level keys resource_url (the path
\* of the request) and @error, so no @controls; @error = {@message: title,
\* @messages: [message]}, where @messages is empty when the message is None or
\* the empty string.
C10_ErrorAndResourceUrl ==
    built # <<>> =>
        LET doc == built[1].resp.body.doc
        IN  /\ built[1].resp.status = built[1].status_code
            /\ built[1].resp.body.kind = "json"
            /\ DOMAIN doc = {"@error", "resource_url"}
            /\ doc["resource_url"] = built[1].path
            /\ DOMAIN doc["@error"] = {"@message", "@messages"}
            /\ doc["@error"]["@message"] = built[1].title
            /\ doc["@error"]["@messages"] =
                  IF built[1].message \in {JNull, JStr("")}
                  THEN <<>> ELSE <<built[1].message.v>>

C10_Witness ==
    /\ built # <<>>
    /\ built[1].status_code = 415
    /\ built[1].message = JStr("Requests must be JSON")
    /\ built[1].resp.body.doc["@error"]["@messages"] = <<"Requests must be JSON">>

\* C11: every 200 response of a collection (accounts, an account's orders, an
\* account's positions) whose items list is empty carries a self control and,
\* for accounts and orders, the add-account / add-order control with method POST
\* and the resource's schema.
C11_EmptyCollectionControls ==
    (/\ last.req.method = "GET"
     /\ Resolve(last.req.path) # <<>>
     /\ Resolve(last.req.path)[1].resource \in {"Accounts", "OrdersResource", "Positions"}
     /\ last.resp.status = 200
     /\ last.resp.body.kind = "json"
     /\ last.resp.body.doc.items = <<>>)
    => LET doc == last.resp.body.doc
           resource == Resolve(last.req.path)[1].resource
       IN  /\ "self" \in Relations(doc)
           /\ resource = "Accounts"
                 => /\ "add-account" \in Relations(doc)
                    /\ doc["@controls"]["add-account"].method = "POST"
                    /\ doc["@controls"]["add-account"].schema = account_schema
           /\ resource = "OrdersResource"
                 => /\ "add-order" \in Relations(doc)
                    /\ doc["@controls"]["add-order"].method = "POST"
                    /\ doc["@controls"]["add-order"].schema = order_schema

C11_Witness ==
    /\ Targets(last.req, "GET", "OrdersResource")
    /\ last.resp.status = 200
    /\ last.resp.body.doc.items = <<>>
    /\ orders # {}

\* The venue turned the call of the step down.
VenueRejected(exchange) ==
    \/ Targets(exchange.req, "POST", "OrdersResource") /\ exchange.reply.kind = "reject"
    \/ /\ Targets(exchange.req, "PATCH", "Position")
       /\ exchange.reply.kind = "status"
       /\ exchange.reply.status_code >= 400

\* C12: when the venue rejects an order placement (POST on the order collection)
\* or a leverage change (PATCH on a position), the handler answers 400 with an
\* error message of its own, and no Order row is added to the store.
C12_VenueRejectionIs400 ==
    [][VenueRejected(last')
       => /\ last'.resp.status = 400
          /\ last'.resp.body.kind = "json"
          /\ Len(last'.resp.body.doc["@error"]["@messages"]) = 1
          /\ orders' \subseteq orders]_vars

\* The symbol query parameter of the exchange is missing or invalid: no query
\* string, no symbol key, an empty symbol, or a symbol for which the venue
\* yields no trades or fails.
SymbolMissingOrInvalid(exchange) ==
    \/ DOMAIN exchange.req.args = {}
    \/ "symbol" \notin DOMAIN exchange.req.args
    \/ exchange.req.args.symbol = ""
    \/ exchange.reply.kind = "raise"
    \/ exchange.reply.kind = "ok" /\ exchange.reply.trades = <<>>

\* C13: GET /priceaction/ is answered 400 whenever the symbol query parameter is
\* missing or invalid.
C13_PriceActionQueryError ==
    (Targets(last.req, "GET", "PriceAction") /\ SymbolMissingOrInvalid(last))
    => last.resp.status = 400

\* C14: GET /accounts/{apikey}/balance/ for an existing account with the right
\* api_secret is answered 200 with a hypermedia JSON document that carries the
\* margin balance the venue gave for the account.
C14_BalanceDocument ==
    (/\ Targets(last.req, "GET", "AccountBalance")
     /\ Authorized(last.req, users)
     /\ last.reply.kind = "ok")
    => /\ last.resp.status = 200
       /\ last.resp.mimetype = MASON
       /\ last.resp.body.kind = "json"
       /\ \E key \in DOMAIN last.resp.body.doc \ {"@controls"} :
             last.resp.body.doc[key] = last.reply.funds.marginBalance

\* C15: DELETE /accounts/{apikey}/orders/{orderid}/ removes the local Order row
\* only when the venue's cancellation succeeds: after a request whose
\* cancellation the venue did not carry out, the row is still in the store.
C15_DeleteOnlyOnVenueSuccess ==
    [][(/\ Targets(last'.req, "DELETE", "OrderResource")
        /\ last'.reply.kind = "status"
        /\ last'.reply.status_code # 200)
       => orders' = orders]_vars

\* The request names an order that a stored account other than the one of the
\* path owns.
NamesForeignOrder(req, U, O) ==
    \E a \in U, o \in O :
        /\ a.api_public = PathArg(req, "apikey")
        /\ o.order_id = PathArg(req, "orderid")
        /\ o.user_id # a.id

\* C16: a GET or DELETE on /accounts/{apikey}/orders/{orderid}/ authorized with
\* the key pair of account A never reads (200) or deletes (204) an order owned
\* by another account B.
C16_NoCrossAccountOrderAccess ==
    [][(/\ \/ Targets(last'.req, "GET", "OrderResource")
           \/ Targets(last'.req, "DELETE", "OrderResource")
        /\ Authorized(last'.req, users)
        /\ NamesForeignOrder(last'.req, users, orders))
       => /\ last'.resp.status \notin {200, 204}
          /\ orders' = orders]_vars

\* A stored account has the public key of the request's path and the request
\* comes without its secret.
DeniedFor(req, U) ==
    /\ Len(req.path) >= 2
    /\ req.path[1] = "accounts"
    /\ \E u \in U : u.api_public = req.path[2] /\ LacksSecret(req.headers, u)

\* C17: for every route under /accounts/{apikey}/ and every method, a request
\* for an existing account whose api_secret header is missing or differs from
\* the stored secret leaves accounts and orders unchanged and makes no call to
\* the venue.
C17_DeniedChangesNothing ==
    [][DeniedFor(last'.req, users)
       => /\ users' = users
          /\ orders' = orders
          /\ last'.venue = <<>>]_vars

C17_Witness ==
    /\ Targets(last.req, "DELETE", "OrderResource")
    /\ DeniedFor(last.req, users)
    /\ \E o \in orders : o.order_id = PathArg(last.req, "orderid")
    /\ last.resp.status = 401

====
